---------------------------- MODULE Spec2Model ----------------------------
(***************************************************************************)
(* A model of statsdaemon (src/statsdaemon.go): the wire parser, the       *)
(* single-writer aggregator with its flush emitters, and the pipeline of   *)
(* receivers, parser workers and the aggregator loop.                      *)
(*                                                                         *)
(* Numbers: every float64 of the program is an integer here (the literals  *)
(* the model feeds the parser have no '.', exponent, "inf" or "nan"), and  *)
(* a sampling rate is a fraction <<num, den>> whose reciprocal is exact.   *)
(* A byte string is a sequence of one-character strings.  A Go map is a    *)
(* function whose DOMAIN is the set of keys present.                       *)
(***************************************************************************)
EXTENDS Integers, Sequences, FiniteSets, TLC

VARIABLES
    data,             \* parseMessage: the payload handed to the parser
    parsed,           \* parseMessage: its result, or NotParsed
    counters,         \* map bucket -> int64
    gauges,           \* map bucket -> float64
    timers,           \* map bucket -> Float64Slice
    countInactivity,  \* map bucket -> int64
    sets,             \* map bucket -> []string
    persistCountKeys, \* flag -persist-count-keys
    receiveCounter,   \* flag -receive-counter: a bucket, or <<>> for ""
    debug,            \* flag -debug
    graphiteAddress,  \* flag -graphite: "-" or an address
    percentThreshold, \* flag -percent-threshold: the percentiles, in order
    flush,            \* what the last call of submit did (observation)
    crashed,          \* the process died of a run-time panic
    window,           \* history: the packets applied since the emitters last ran
    sinceValue,       \* history: per bucket, emitter runs since its counter was emitted
    PacketIn,         \* channel of raw payloads (with the payload's number)
    In,               \* channel of parsed packets (with payload number and line)
    signalchan,       \* channel of signals, capacity 1
    tickerC,          \* ticker.C, capacity 1: a tick is waiting
    udpMessage,       \* udpListener: the datagrams read and not yet sent on
    httpString,       \* httpHandler: the statsd_string of each running handler
    work,             \* processPacketSentIn: per busy worker, the packets left to send
    pc,               \* monitor: "select", or "returned" (and main with it)
    arrived,          \* history: payloads that reached a listener so far
    received,         \* history: the numbers of the payloads read without error
    removed,          \* history: payload number -> receives of it from PacketIn
    produced,         \* history: payload number -> packets the parser made of it
    applied,          \* history: (payload number, line) -> times handled
    finalSubmits      \* history: calls of submit made by the signal case

parseVars == <<data, parsed>>
flagVars  == <<persistCountKeys, receiveCounter, debug, graphiteAddress,
               percentThreshold>>
tableVars == <<counters, gauges, timers, countInactivity, sets>>
aggVars   == <<tableVars, flagVars, flush, crashed, window, sinceValue>>
chanVars  == <<PacketIn, In, signalchan, tickerC>>
taskVars  == <<udpMessage, httpString, work, pc>>
histVars  == <<arrived, received, removed, produced, applied,
               finalSubmits>>
pipeVars  == <<chanVars, taskVars, histVars>>
vars == <<parseVars, aggVars, pipeVars>>

-----------------------------------------------------------------------------
(* Byte-string helpers (Go slices are 0-based, TLA+ sequences 1-based).     *)

\* bytes.IndexByte: the 0-based index of the first c in s, or -1.
IndexByte(s, c) ==
    IF \E i \in 1..Len(s) : s[i] = c
    THEN (CHOOSE i \in 1..Len(s) : s[i] = c /\ \A j \in 1..(i-1) : s[j] # c) - 1
    ELSE -1

\* s[from:] of Go.
SliceFrom(s, from) == SubSeq(s, from + 1, Len(s))

\* s[:to] of Go.
SliceTo(s, to) == SubSeq(s, 1, to)

\* bytes.HasPrefix.
HasPrefix(s, p) == Len(s) >= Len(p) /\ SubSeq(s, 1, Len(p)) = p

\* bytes.Split(data, "\n"): the pieces between newlines, empty ones kept.
RECURSIVE SplitLines(_)
SplitLines(s) ==
    LET i == IndexByte(s, "\n")
    IN  IF i < 0 THEN <<s>>
        ELSE <<SliceTo(s, i)>> \o SplitLines(SliceFrom(s, i + 1))

Digits == {"0", "1", "2", "3", "4", "5", "6", "7", "8", "9"}

DigitVal(c) ==
    CASE c = "0" -> 0 [] c = "1" -> 1 [] c = "2" -> 2 [] c = "3" -> 3
      [] c = "4" -> 4 [] c = "5" -> 5 [] c = "6" -> 6 [] c = "7" -> 7
      [] c = "8" -> 8 [] c = "9" -> 9

RECURSIVE DecVal(_)
DecVal(s) ==
    IF Len(s) = 0 THEN 0
    ELSE 10 * DecVal(SubSeq(s, 1, Len(s) - 1)) + DigitVal(s[Len(s)])

\* strconv.ParseInt(s, 10, 64): an optional sign, then one or more digits.
ParseInt(s) ==
    LET signed == Len(s) > 0 /\ s[1] \in {"+", "-"}
        body   == IF signed THEN Tail(s) ELSE s
    IN  IF Len(body) = 0 \/ \E i \in 1..Len(body) : body[i] \notin Digits
        THEN [err |-> TRUE, v |-> 0]
        ELSE [err |-> FALSE,
              v   |-> IF signed /\ s[1] = "-" THEN 0 - DecVal(body)
                      ELSE DecVal(body)]

\* strconv.ParseFloat on the literals of this model: an optional sign, then
\* one or more digits; every other string of the model's alphabet is a
\* syntax error.
ParseFloat(s) ==
    LET signed == Len(s) > 0 /\ s[1] \in {"+", "-"}
        body   == IF signed THEN Tail(s) ELSE s
    IN  IF Len(body) = 0 \/ \E i \in 1..Len(body) : body[i] \notin Digits
        THEN [err |-> TRUE, v |-> 0]
        ELSE [err |-> FALSE,
              v   |-> IF signed /\ s[1] = "-" THEN 0 - DecVal(body)
                      ELSE DecVal(body)]

-----------------------------------------------------------------------------
(* Packet and its Value (an interface{} in Go: one record shape here, the   *)
(* field "type" telling which Go type it holds).                            *)

IntValue(n)    == [type |-> "int64",   Relative |-> FALSE, Negative |-> FALSE,
                   num |-> n, str |-> <<>>]
FloatValue(n)  == [type |-> "float64", Relative |-> FALSE, Negative |-> FALSE,
                   num |-> n, str |-> <<>>]
GaugeData(relative, negative, value) ==
                  [type |-> "GaugeData", Relative |-> relative,
                   Negative |-> negative, num |-> value, str |-> <<>>]
StringValue(s) == [type |-> "string",  Relative |-> FALSE, Negative |-> FALSE,
                   num |-> 0, str |-> s]

Packet(bucket, value, modifier, sampling) ==
    [Bucket |-> bucket, Value |-> value, Modifier |-> modifier,
     Sampling |-> sampling]

\* The flags -prefix, -prefixTimers, -prefixGauges at their defaults.  A bucket
\* is the pair <<prefix, name>> standing for the concatenation.
prefix       == "stats."
prefixTimers == "stats.timers."
prefixGauges == "stats.gauges."

-----------------------------------------------------------------------------
(* parseMessage                                                             *)

Skip  == [kind |-> "skip"]
Panic == [kind |-> "panic"]
Event(p) == [kind |-> "packet", packet |-> p]

\* The sampling rate of the rest of the line after the type indicator.
ParseSampling(input) ==
    IF Len(input) > 0 /\ HasPrefix(input, <<"|", "@">>)
    THEN LET rate == ParseFloat(SliceFrom(input, 2))
         IN  IF ~rate.err THEN <<rate.v, 1>> ELSE <<1, 1>>
    ELSE <<1, 1>>

\* The value of a line of type mtypeStr: a Value, Skip or Panic.
ParseValue(mtypeStr, val) ==
    IF mtypeStr[1] = "c"
    THEN LET r == ParseInt(val)
         IN  IF r.err THEN Skip ELSE [kind |-> "value", value |-> IntValue(r.v)]
    ELSE IF mtypeStr[1] = "g"
    THEN IF Len(val) = 0 THEN Panic       \* val[0] of an empty slice
         ELSE LET relative == val[1] \in {"+", "-"}
                  negative == val[1] = "-"
                  stringToParse == IF relative THEN Tail(val) ELSE val
                  r == ParseFloat(stringToParse)
              IN  IF r.err THEN Skip
                  ELSE [kind |-> "value",
                        value |-> GaugeData(relative, negative, r.v)]
    ELSE IF mtypeStr[1] = "s"
    THEN [kind |-> "value", value |-> StringValue(val)]
    ELSE LET r == ParseFloat(val)
         IN  IF r.err THEN Skip
             ELSE [kind |-> "value", value |-> FloatValue(r.v)]

\* The body of parseMessage's loop for one non-empty line.
ParseLine(line) ==
    LET index == IndexByte(line, ":")
    IN  IF index < 0 \/ index = Len(line) - 1 THEN Skip
        ELSE
        LET name   == SliceTo(line, index)
            input  == SliceFrom(line, index + 1)
            index2 == IndexByte(input, "|")
        IN  IF index2 < 0 \/ index2 = Len(input) - 1 THEN Skip
            ELSE
            LET val  == SliceTo(input, index2)
                at   == index2 + 1             \* 0-based place of the type
                isM  == input[at + 1] = "m"
            IN  IF isM /\ (at + 1 >= Len(input) \/ input[at + 2] # "s")
                THEN Skip
                ELSE
                LET mtypeStr == IF isM THEN <<"m", "s">> ELSE <<input[at + 1]>>
                    rest     == SliceFrom(input, at + Len(mtypeStr))
                    value    == ParseValue(mtypeStr, val)
                    prefixToAdd ==
                        IF isM THEN prefixTimers
                        ELSE IF mtypeStr[1] = "g" THEN prefixGauges
                        ELSE prefix
                    modifier == IF isM THEN "ms" ELSE mtypeStr[1]
                IN  IF value.kind # "value" THEN value
                    ELSE Event(Packet(<<prefixToAdd, name>>, value.value,
                                      modifier, ParseSampling(rest)))

\* The loop over the lines: the packets so far, or a panic that ends it.
RECURSIVE ParseLines(_, _)
ParseLines(lines, output) ==
    IF Len(lines) = 0 THEN [panic |-> FALSE, output |-> output]
    ELSE IF Len(Head(lines)) = 0 THEN ParseLines(Tail(lines), output)
    ELSE LET r == ParseLine(Head(lines))
         IN  IF r.kind = "panic" THEN [panic |-> TRUE, output |-> <<>>]
             ELSE IF r.kind = "skip" THEN ParseLines(Tail(lines), output)
             ELSE ParseLines(Tail(lines), Append(output, r.packet))

parseMessage(bytes) == ParseLines(SplitLines(bytes), <<>>)

parseMessageString(s) == parseMessage(s)

NotParsed == [panic |-> FALSE, output |-> <<>>, done |-> FALSE]

-----------------------------------------------------------------------------
(* Go maps                                                                  *)

EmptyMap == [x \in {} |-> 0]
MapSet(m, k, v) == [x \in DOMAIN m \cup {k} |-> IF x = k THEN v ELSE m[x]]
MapGet(m, k, zero) == IF k \in DOMAIN m THEN m[k] ELSE zero

-----------------------------------------------------------------------------
(* packetHandler                                                            *)

\* Stand-in for math.MaxUint64, the bound a relative-positive gauge clamps at.
MaxUint64 == 12

\* int64(x) of a float64 x = num/den: truncation toward zero.
Trunc(num, den) ==
    LET n == IF den < 0 THEN 0 - num ELSE num
        d == IF den < 0 THEN 0 - den ELSE den
    IN  IF n >= 0 THEN n \div d ELSE 0 - ((0 - n) \div d)

\* A delta that is rounded down instead of toward zero.
CounterDeltaFloor(value, sampling) == (value * sampling[2]) \div sampling[1]

\* int64(float64(value) * float64(1/sampling)), sampling = <<num, den>>.
CounterDelta(value, sampling) == Trunc(value * sampling[2], sampling[1])

\* The receive counter, incremented for every packet handled.
ReceiveCount(cnt) ==
    IF receiveCounter # <<>>
    THEN LET base == IF receiveCounter \notin DOMAIN cnt \/ cnt[receiveCounter] < 0
                     THEN 0 ELSE cnt[receiveCounter]
         IN  MapSet(cnt, receiveCounter, base + 1)
    ELSE cnt

\* case "c"
CounterApply(cnt, s) ==
    MapSet(cnt, s.Bucket,
           MapGet(cnt, s.Bucket, 0) + CounterDelta(s.Value.num, s.Sampling))

\* A relative-negative update that subtracts without the check for going
\* below zero.
GaugeApplyNoFloor(gaugeValue, gaugeData) ==
    IF gaugeData.Relative
    THEN IF gaugeData.Negative
         THEN gaugeValue - gaugeData.num
         ELSE IF gaugeData.num > MaxUint64 - gaugeValue THEN MaxUint64
              ELSE gaugeValue + gaugeData.num
    ELSE gaugeData.num

\* case "g": the new value of a gauge holding gaugeValue.
GaugeApply(gaugeValue, gaugeData) ==
    IF gaugeData.Relative
    THEN IF gaugeData.Negative
         THEN IF gaugeData.num > gaugeValue THEN 0
              ELSE gaugeValue - gaugeData.num
         ELSE IF gaugeData.num > MaxUint64 - gaugeValue THEN MaxUint64
              ELSE gaugeValue + gaugeData.num
    ELSE gaugeData.num

\* case "ms"
TimerApply(tm, s) ==
    MapSet(tm, s.Bucket, Append(MapGet(tm, s.Bucket, <<>>), s.Value.num))

\* case "s"
SetApply(st, s) ==
    MapSet(st, s.Bucket, Append(MapGet(st, s.Bucket, <<>>), s.Value.str))

\* packetHandler as a function of the four tables it writes.
Handled(tb, s) ==
    [counters |-> IF s.Modifier = "c"
                  THEN CounterApply(ReceiveCount(tb.counters), s)
                  ELSE ReceiveCount(tb.counters),
     timers   |-> IF s.Modifier = "ms" THEN TimerApply(tb.timers, s)
                  ELSE tb.timers,
     gauges   |-> IF s.Modifier = "g"
                  THEN MapSet(tb.gauges, s.Bucket,
                              GaugeApply(MapGet(tb.gauges, s.Bucket, 0),
                                         s.Value))
                  ELSE tb.gauges,
     sets     |-> IF s.Modifier = "s" THEN SetApply(tb.sets, s) ELSE tb.sets]

Tables == [counters |-> counters, timers |-> timers, gauges |-> gauges,
           sets |-> sets]

packetHandler(s) ==
    LET after == Handled(Tables, s)
    IN  /\ counters' = after.counters
        /\ timers' = after.timers
        /\ gauges' = after.gauges
        /\ sets' = after.sets
        /\ UNCHANGED countInactivity

-----------------------------------------------------------------------------
(* The emitters.  A line of the buffer is a record: src is the loop that    *)
(* wrote it, stat the suffix after the bucket ("" for none), pct the        *)
(* percentile of an upper_/lower_ line, and value/den the number written.   *)
(* The buffer is the set of its lines: a Go map is ranged over in no        *)
(* particular order, and no reader of the buffer depends on it.             *)

Line(src, bucket, stat, pct, value, den) ==
    [src |-> src, bucket |-> bucket, stat |-> stat, pct |-> pct,
     value |-> value, den |-> den]

\* A counters emitter that forgets a bucket one run early.
processCountersEarly(cnt, inact, persist) ==
    LET afterFirst ==
            [b \in DOMAIN inact \cup DOMAIN cnt |->
                IF b \in DOMAIN cnt THEN 0 ELSE inact[b]]
        zeros == {b \in DOMAIN afterFirst : afterFirst[b] > 0}
        kept  == {b \in DOMAIN afterFirst : ~(afterFirst[b] + 1 >= persist)}
    IN  [lines |-> {Line("counters", b, "", 0, cnt[b], 1) : b \in DOMAIN cnt}
                   \cup {Line("inactivity", b, "", 0, 0, 1) : b \in zeros},
         num   |-> Cardinality(DOMAIN cnt) + Cardinality(zeros),
         countInactivity |-> [b \in kept |-> afterFirst[b] + 1]]

\* A counters emitter that does not count its zero lines in num.
processCountersNoZeroNum(cnt, inact, persist) ==
    LET afterFirst ==
            [b \in DOMAIN inact \cup DOMAIN cnt |->
                IF b \in DOMAIN cnt THEN 0 ELSE inact[b]]
        zeros == {b \in DOMAIN afterFirst : afterFirst[b] > 0}
        kept  == {b \in DOMAIN afterFirst : ~(afterFirst[b] + 1 > persist)}
    IN  [lines |-> {Line("counters", b, "", 0, cnt[b], 1) : b \in DOMAIN cnt}
                   \cup {Line("inactivity", b, "", 0, 0, 1) : b \in zeros},
         num   |-> Cardinality(DOMAIN cnt),
         countInactivity |-> [b \in kept |-> afterFirst[b] + 1]]

\* A counters emitter whose first loop leaves the ticker of a bucket alone.
processCountersNoReset(cnt, inact, persist) ==
    LET afterFirst ==
            [b \in DOMAIN inact \cup DOMAIN cnt |->
                IF b \in DOMAIN inact THEN inact[b] ELSE 0]
        zeros == {b \in DOMAIN afterFirst : afterFirst[b] > 0}
        kept  == {b \in DOMAIN afterFirst : ~(afterFirst[b] + 1 > persist)}
    IN  [lines |-> {Line("counters", b, "", 0, cnt[b], 1) : b \in DOMAIN cnt}
                   \cup {Line("inactivity", b, "", 0, 0, 1) : b \in zeros},
         num   |-> Cardinality(DOMAIN cnt) + Cardinality(zeros),
         countInactivity |-> [b \in kept |-> afterFirst[b] + 1]]

processCounters(cnt, inact, persist) ==
    LET afterFirst ==
            [b \in DOMAIN inact \cup DOMAIN cnt |->
                IF b \in DOMAIN cnt THEN 0 ELSE inact[b]]
        zeros == {b \in DOMAIN afterFirst : afterFirst[b] > 0}
        kept  == {b \in DOMAIN afterFirst : ~(afterFirst[b] + 1 > persist)}
    IN  [lines |-> {Line("counters", b, "", 0, cnt[b], 1) : b \in DOMAIN cnt}
                   \cup {Line("inactivity", b, "", 0, 0, 1) : b \in zeros},
         num   |-> Cardinality(DOMAIN cnt) + Cardinality(zeros),
         countInactivity |-> [b \in kept |-> afterFirst[b] + 1]]

processGauges(g) ==
    [lines |-> {Line("gauges", b, "", 0, g[b], 1) : b \in DOMAIN g},
     num   |-> Cardinality(DOMAIN g)]

\* The length of the list, duplicates and all.
CountAll(set, uniqueSet) == Len(set)

\* len(uniqueSet) of processSets.
RECURSIVE UniqueCount(_, _)
UniqueCount(set, uniqueSet) ==
    IF Len(set) = 0 THEN Cardinality(uniqueSet)
    ELSE UniqueCount(Tail(set), uniqueSet \cup {Head(set)})

processSets(st) ==
    [lines |-> {Line("sets", b, "", 0, UniqueCount(st[b], {}), 1) : b \in DOMAIN st},
     num   |-> Cardinality(DOMAIN st)]

\* The list left in the order of arrival.
Unsorted(t) == t

\* sort.Sort(t): ascending.
RECURSIVE Insert(_, _)
Insert(sorted, x) ==
    IF Len(sorted) = 0 THEN <<x>>
    ELSE IF x < Head(sorted) THEN <<x>> \o sorted
    ELSE <<Head(sorted)>> \o Insert(Tail(sorted), x)

RECURSIVE SortAsc(_)
SortAsc(t) ==
    IF Len(t) = 0 THEN <<>> ELSE Insert(SortAsc(SubSeq(t, 1, Len(t) - 1)), t[Len(t)])

RECURSIVE SumSeq(_)
SumSeq(t) == IF Len(t) = 0 THEN 0 ELSE Head(t) + SumSeq(Tail(t))

\* indexOfPerc, 0-based: floor((abs/100)*count + 0.5), one less for pct >= 0.
IndexOfPerc(pct, count) ==
    LET abs == IF pct >= 0 THEN pct ELSE 100 + pct
        rounded == (2 * abs * count + 100) \div 200
    IN  IF pct >= 0 THEN rounded - 1 ELSE rounded

\* Whether the timers emitter panics on a bucket of count samples.
TimerPanics(count, pctls) ==
    \/ count = 0
    \/ /\ count > 1
       /\ \E i \in 1..Len(pctls) :
            IndexOfPerc(pctls[i], count) \notin 0..(count - 1)

\* The lines of one timer bucket (one that does not panic).
TimerLines(u, t, pctls) ==
    LET sorted == SortAsc(t)
        count  == Len(t)
        min    == sorted[1]
        max    == sorted[count]
        median == sorted[(count \div 2) + 1]
        sum    == SumSeq(sorted)
        maxAtThreshold(pct) ==
            IF count > 1 THEN sorted[IndexOfPerc(pct, count) + 1] ELSE max
    IN  {Line("timers",
              u,
              IF pctls[i] >= 0 THEN "upper_" ELSE "lower_",
              IF pctls[i] >= 0 THEN pctls[i] ELSE 0 - pctls[i],
              maxAtThreshold(pctls[i]), 1) : i \in 1..Len(pctls)}
        \cup {Line("timers", u, "mean", 0, sum, count),
              Line("timers", u, "median", 0, median, 1),
              Line("timers", u, "upper", 0, max, 1),
              Line("timers", u, "lower", 0, min, 1),
              Line("timers", u, "count", 0, count, 1)}

processTimers(tm, pctls) ==
    IF \E u \in DOMAIN tm : TimerPanics(Len(tm[u]), pctls)
    THEN [panic |-> TRUE, lines |-> {}, num |-> 0]
    ELSE [panic |-> FALSE,
          lines |-> UNION {TimerLines(u, tm[u], pctls) : u \in DOMAIN tm},
          num   |-> Cardinality(DOMAIN tm)]

-----------------------------------------------------------------------------
(* submit                                                                   *)

NoFlush == [ran |-> FALSE, conn |-> FALSE, lines |-> {}, num |-> 0,
            wrote |-> FALSE, written |-> {}, ret |-> "none"]

\* The four emitters, in the order submit calls them, run on the tables tb.
EmittersOn(tb) ==
    LET c == processCounters(tb.counters, countInactivity, persistCountKeys)
        g == processGauges(tb.gauges)
        t == processTimers(tb.timers, percentThreshold)
        s == processSets(tb.sets)
    IN  [panic |-> t.panic,
         lines |-> c.lines \cup g.lines \cup t.lines \cup s.lines,
         num   |-> c.num + g.num + t.num + s.num,
         countInactivity |-> c.countInactivity]

Emitters == EmittersOn(Tables)

MaxWindow == 2
MaxPersist == 2

\* The history of the counter buckets after a run of the counters emitter.
SinceCap == MaxPersist + 2
Touched(b) ==
    \E i \in 1..Len(window) :
        \/ window[i].Modifier = "c" /\ window[i].Bucket = b
        \/ receiveCounter = b
SinceAfterRun ==
    LET seen == DOMAIN sinceValue \cup {b \in DOMAIN counters : Touched(b)}
    IN  [b \in seen |->
            IF Touched(b) THEN 0
            ELSE IF sinceValue[b] < SinceCap THEN sinceValue[b] + 1
            ELSE SinceCap]

\* A run of the emitters in which processGauges deletes nothing.
RunEmittersKeepGauges(obs) ==
    LET e == Emitters
    IN  /\ counters' = EmptyMap
        /\ gauges' = gauges
        /\ countInactivity' = e.countInactivity
        /\ crashed' = FALSE
        /\ timers' = EmptyMap
        /\ sets' = EmptyMap
        /\ window' = <<>>
        /\ sinceValue' = SinceAfterRun
        /\ flush' = [ran |-> TRUE, lines |-> e.lines, num |-> e.num] @@ obs

\* The emitters ran: the tables are drained (or the process died in
\* processTimers), obs is what submit is seen to have done.
RunEmitters(obs) ==
    LET e == Emitters
    IN  /\ counters' = EmptyMap
        /\ gauges' = EmptyMap
        /\ countInactivity' = e.countInactivity
        /\ IF e.panic
           THEN /\ crashed' = TRUE
                /\ flush' = NoFlush
                /\ UNCHANGED <<timers, sets, window, sinceValue>>
           ELSE /\ crashed' = FALSE
                /\ timers' = EmptyMap
                /\ sets' = EmptyMap
                /\ window' = <<>>
                /\ sinceValue' = SinceAfterRun
                /\ flush' = [ran |-> TRUE, lines |-> e.lines, num |-> e.num]
                            @@ obs

\* An early return that empties the counters all the same.
ReturnEarlyDrain(ret, conn) ==
    /\ flush' = [NoFlush EXCEPT !.ret = ret, !.conn = conn]
    /\ counters' = EmptyMap
    /\ UNCHANGED <<gauges, timers, countInactivity, sets, crashed, window,
                   sinceValue>>

\* submit returns before any emitter ran (conn: a connection was opened).
ReturnEarly(ret, conn) ==
    /\ flush' = [NoFlush EXCEPT !.ret = ret, !.conn = conn]
    /\ UNCHANGED <<tableVars, crashed, window, sinceValue>>

\* submit; outcome is where the network fails it: net.Dial ("dial"),
\* SetDeadline ("deadline"), Write ("write"), or nowhere ("ok").
submit(outcome) ==
    /\ IF graphiteAddress = "-" THEN ReturnEarly("nil", FALSE)
       ELSE IF outcome = "dial"
       THEN IF debug
            THEN RunEmitters([conn |-> FALSE, wrote |-> FALSE, written |-> {},
                              ret |-> "error"])
            ELSE ReturnEarly("error", FALSE)
       ELSE IF outcome = "deadline" THEN ReturnEarly("error", TRUE)
       ELSE LET e == Emitters
            IN  IF e.num = 0
                THEN RunEmitters([conn |-> TRUE, wrote |-> FALSE,
                                  written |-> {}, ret |-> "nil"])
                ELSE RunEmitters([conn |-> TRUE, wrote |-> TRUE,
                                  written |-> e.lines,
                                  ret |-> IF outcome = "write" THEN "error"
                                          ELSE "nil"])
    /\ UNCHANGED flagVars

Outcomes == {"dial", "deadline", "write", "ok"}

-----------------------------------------------------------------------------
(* The aggregator alone: packets drawn from a set are applied, submit runs. *)

\* The aggregator's variables while another part of the program is modelled.
AggIdle ==
    /\ counters = EmptyMap /\ gauges = EmptyMap /\ timers = EmptyMap
    /\ countInactivity = EmptyMap /\ sets = EmptyMap
    /\ persistCountKeys = 0 /\ receiveCounter = <<>> /\ debug = FALSE
    /\ graphiteAddress = "-" /\ percentThreshold = <<>>
    /\ flush = NoFlush /\ crashed = FALSE
    /\ window = <<>> /\ sinceValue = EmptyMap

InitTables ==
    /\ counters = EmptyMap /\ gauges = EmptyMap /\ timers = EmptyMap
    /\ countInactivity = EmptyMap /\ sets = EmptyMap
    /\ flush = NoFlush /\ crashed = FALSE
    /\ window = <<>> /\ sinceValue = EmptyMap

\* One packet of the set packets is handled (at most max between two runs
\* of the emitters).
Handle(packets, max) ==
    /\ ~crashed
    /\ Len(window) < max
    /\ \E s \in packets :
        /\ packetHandler(s)
        /\ window' = Append(window, s)
    /\ UNCHANGED <<flagVars, flush, crashed, sinceValue, parseVars, pipeVars>>

\* One call of submit.
Submit ==
    /\ ~crashed
    /\ \E outcome \in Outcomes : submit(outcome)
    /\ UNCHANGED <<parseVars, pipeVars>>

\* No listener, worker or loop is running.
PipeIdle ==
    /\ PacketIn = <<>> /\ In = <<>> /\ signalchan = <<>> /\ tickerC = FALSE
    /\ udpMessage = {} /\ httpString = {} /\ work = {} /\ pc = "select"
    /\ arrived = 0 /\ received = {} /\ removed = EmptyMap
    /\ produced = EmptyMap /\ applied = EmptyMap
    /\ finalSubmits = 0

ParseIdle == data = <<>> /\ parsed = NotParsed /\ PipeIdle

Bkt(name) == <<prefix, <<name>>>>
ReceiveBucket == <<"", <<"r">>>>

CounterPackets ==
    {Packet(Bkt("a"), IntValue(7), "c", <<1, 1>>),
     Packet(Bkt("a"), IntValue(2), "c", <<1, 2>>),
     Packet(Bkt("a"), IntValue(0 - 3), "c", <<2, 1>>),
     Packet(Bkt("b"), IntValue(1), "c", <<1, 1>>)}

InitCounters ==
    /\ InitTables
    /\ ParseIdle
    /\ persistCountKeys \in 0..MaxPersist
    /\ receiveCounter \in {<<>>, ReceiveBucket}
    /\ debug = FALSE
    /\ graphiteAddress = "127.0.0.1:2003"
    /\ percentThreshold = <<>>

HandleCounter == Handle(CounterPackets, MaxWindow)

NextCounters == HandleCounter \/ Submit

SpecCounters == InitCounters /\ [][NextCounters]_vars

-----------------------------------------------------------------------------
(* Properties of the counters.                                              *)

\* The lines the last run of the emitters wrote for bucket b.
LinesFor(b) == {l \in flush.lines : l.bucket = b}

ZeroLine(b) == Line("inactivity", b, "", 0, 0, 1)

\* C1: after a run of the counters emitter emitted the accumulated value of
\* a counter bucket, each of the next persist_count_keys runs in which the
\* bucket had no traffic emits exactly the line "bucket 0" for it, and the
\* runs after those emit no line for it; the run that emits the value emits
\* only that line.  sinceValue counts the runs since the value was emitted.
C1_ZeroFillGrace ==
    flush.ran =>
        /\ \A l \in flush.lines :
              l.src \in {"counters", "inactivity"} => l.bucket \in DOMAIN sinceValue
        /\ \A b \in DOMAIN sinceValue :
              /\ sinceValue[b] = 0 =>
                    /\ Cardinality(LinesFor(b)) = 1
                    /\ \A l \in LinesFor(b) : l.src = "counters"
              /\ (sinceValue[b] >= 1 /\ sinceValue[b] <= persistCountKeys) =>
                    LinesFor(b) = {ZeroLine(b)}
              /\ sinceValue[b] > persistCountKeys => LinesFor(b) = {}

\* The fourth window of the scenario 7, 0, 0, nothing: persist_count_keys = 2,
\* three quiet runs after the value, and no line for the bucket.
C1_Witness ==
    /\ flush.ran
    /\ persistCountKeys = 2
    /\ Bkt("a") \in DOMAIN sinceValue
    /\ sinceValue[Bkt("a")] = 3
    /\ LinesFor(Bkt("a")) = {}
    /\ Bkt("a") \notin DOMAIN countInactivity

\* The sum of trunc(d * (1/r)) over the counter packets of w for bucket b.
RECURSIVE SumOfDeltas(_, _)
SumOfDeltas(w, b) ==
    IF Len(w) = 0 THEN 0
    ELSE (IF Head(w).Modifier = "c" /\ Head(w).Bucket = b
          THEN Trunc(Head(w).Value.num * Head(w).Sampling[2], Head(w).Sampling[1])
          ELSE 0) + SumOfDeltas(Tail(w), b)

HasCounterPacket(w, b) ==
    \E i \in 1..Len(w) : w[i].Modifier = "c" /\ w[i].Bucket = b

\* This step is a run of the emitters (it drains the window it found).
EmittersRun == flush'.ran /\ window' = <<>>

\* The counter lines of the run of this step are, for every bucket of
\* buckets, the sum over the window's counter packets for it.
CounterLinesAreSums(buckets) ==
    \A b \in buckets :
        LET ls == {l \in flush'.lines : l.src = "counters" /\ l.bucket = b}
        IN  IF HasCounterPacket(window, b)
            THEN ls = {Line("counters", b, "", 0, SumOfDeltas(window, b), 1)}
            ELSE ls = {}

CounterBuckets == {Bkt("a"), Bkt("b"), ReceiveBucket}

CounterRunLines(b) ==
    {l \in flush'.lines : l.bucket = b /\ l.src \in {"counters", "inactivity"}}

\* C19: in one run of the counters emitter every counter bucket gets at most
\* one line, a bucket with a counter entry gets its value line, and a
\* zero-fill line goes only to a bucket with no counter entry in the window;
\* after the run counters is empty and every ticker left in count_inactivity
\* lies in 1..persist_count_keys.
C19_OneLinePerBucket ==
    [][EmittersRun =>
        /\ \A b \in CounterBuckets : Cardinality(CounterRunLines(b)) <= 1
        /\ \A b \in DOMAIN counters :
              CounterRunLines(b) = {Line("counters", b, "", 0, counters[b], 1)}
        /\ \A l \in flush'.lines :
              l.src = "inactivity" =>
                  l.bucket \notin DOMAIN counters /\ ~Touched(l.bucket)
        /\ \A l \in flush'.lines : l.bucket \in CounterBuckets
        /\ counters' = EmptyMap
        /\ \A b \in DOMAIN countInactivity' :
              countInactivity'[b] \in 1..persistCountKeys
        /\ persistCountKeys = 0 => countInactivity' = EmptyMap]_vars

\* One run that writes the value of bucket b and the zero of the quiet
\* bucket a, whose ticker then stands at persist_count_keys.
C19_Witness ==
    /\ flush.ran
    /\ persistCountKeys = 2
    /\ ZeroLine(Bkt("a")) \in flush.lines
    /\ Line("counters", Bkt("b"), "", 0, 1, 1) \in flush.lines
    /\ Bkt("a") \in DOMAIN countInactivity /\ countInactivity[Bkt("a")] = 2
    /\ Bkt("b") \in DOMAIN countInactivity /\ countInactivity[Bkt("b")] = 1
    /\ counters = EmptyMap

-----------------------------------------------------------------------------
(* The timers: timer packets are applied, submit runs, for several settings *)
(* of -percent-threshold.                                                   *)

MaxSamples == 3

TimerBkt(name) == <<prefixTimers, <<name>>>>

TimerPackets ==
    {Packet(TimerBkt("t"), FloatValue(v), "ms", <<1, 1>>) : v \in {100, 200, 300}}
    \cup {Packet(TimerBkt("u"), FloatValue(5), "ms", <<1, 1>>)}

PercentSettings == {<<>>, <<90>>, <<10>>, <<0 - 10>>, <<0 - 90, 50>>}

InitTimers ==
    /\ InitTables
    /\ ParseIdle
    /\ persistCountKeys = 0
    /\ receiveCounter = <<>>
    /\ debug = FALSE
    /\ graphiteAddress = "127.0.0.1:2003"
    /\ percentThreshold \in PercentSettings

HandleTimer == Handle(TimerPackets, MaxSamples)

NextTimers == HandleTimer \/ Submit

SpecTimers == InitTimers /\ [][NextTimers]_vars

\* The samples of bucket u among the packets w, in arrival order.
RECURSIVE SamplesOf(_, _)
SamplesOf(w, u) ==
    IF Len(w) = 0 THEN <<>>
    ELSE (IF Head(w).Modifier = "ms" /\ Head(w).Bucket = u
          THEN <<Head(w).Value.num>> ELSE <<>>) \o SamplesOf(Tail(w), u)

MaxOf(S) == CHOOSE m \in {S[i] : i \in 1..Len(S)} : \A i \in 1..Len(S) : S[i] <= m
MinOf(S) == CHOOSE m \in {S[i] : i \in 1..Len(S)} : \A i \in 1..Len(S) : m <= S[i]

\* sorted(S)[k], 0-based: the sample with at most k samples below it and
\* more than k samples not above it.
KthSmallest(S, k) ==
    CHOOSE m \in {S[i] : i \in 1..Len(S)} :
        /\ Cardinality({i \in 1..Len(S) : S[i] < m}) <= k
        /\ Cardinality({i \in 1..Len(S) : S[i] <= m}) > k

TimerBuckets == {TimerBkt("t"), TimerBkt("u")}

\* This step is a call of submit that got to the timers emitter: the
\* emitters ran to their end, or the process died in processTimers.
ReachesTimers == EmittersRun \/ (crashed' /\ ~crashed)

\* C8: a flush that gets to the timers emitter writes, for every timer
\* bucket with samples S (in whatever order they arrived), upper = max(S),
\* lower = min(S), count = |S|, mean = sum(S)/|S| and
\* median = sorted(S)[|S| div 2], and deletes the bucket; a bucket without
\* samples gets no line.
C8_TimerSummary ==
    [][ReachesTimers =>
        \A u \in TimerBuckets :
            LET S  == SamplesOf(window, u)
                ls == {l \in flush'.lines :
                         l.bucket = u /\ l.stat \notin {"upper_", "lower_"}}
            IN  /\ u \notin DOMAIN timers'
                /\ IF Len(S) = 0 THEN {l \in flush'.lines : l.bucket = u} = {}
                   ELSE ls = {Line("timers", u, "upper", 0, MaxOf(S), 1),
                              Line("timers", u, "lower", 0, MinOf(S), 1),
                              Line("timers", u, "count", 0, Len(S), 1),
                              Line("timers", u, "mean", 0, SumSeq(S), Len(S)),
                              Line("timers", u, "median", 0,
                                   KthSmallest(S, Len(S) \div 2), 1)}]_vars

\* The index the claim gives for percentile p over n samples (0-based).
ClaimedIndex(p, n) ==
    IF p >= 0 THEN ((2 * p * n + 100) \div 200) - 1
    ELSE (2 * (100 + p) * n + 100) \div 200

\* C7: whenever the timers emitter runs on a bucket with samples S, it
\* writes for every configured percentile p the line upper_<p> (p >= 0) or
\* lower_<-p> (p < 0) with the value sorted(S)[ClaimedIndex(p, |S|)], or
\* max(S) when |S| <= 1.
C7_PercentileSelection ==
    [][ReachesTimers =>
        \A u \in TimerBuckets :
            LET S == SamplesOf(window, u)
                n == Len(S)
            IN  n > 0 =>
                \A i \in 1..Len(percentThreshold) :
                    LET p == percentThreshold[i]
                    IN  \E l \in flush'.lines :
                          /\ l.bucket = u
                          /\ l.stat = IF p >= 0 THEN "upper_" ELSE "lower_"
                          /\ l.pct = IF p >= 0 THEN p ELSE 0 - p
                          /\ IF n <= 1 THEN l.value = MaxOf(S)
                             ELSE /\ ClaimedIndex(p, n) \in 0..(n - 1)
                                  /\ l.value = KthSmallest(S, ClaimedIndex(p, n))]_vars

\* C17: every timer bucket in the table has at least one sample, for every
\* configured percentile the index the timers emitter computes for a bucket
\* of n > 1 samples is in 0..n-1, and no flush has crashed the process.
C17_IndexInRange ==
    /\ ~crashed
    /\ \A u \in DOMAIN timers :
        LET n == Len(timers[u])
        IN  /\ n >= 1
            /\ n > 1 =>
                \A i \in 1..Len(percentThreshold) :
                    IndexOfPerc(percentThreshold[i], n) \in 0..(n - 1)

-----------------------------------------------------------------------------
(* The gauges: gauge packets are applied, submit runs.  The magnitudes are  *)
(* what ParseFloat makes of the text after the sign, so "+-5" and "--5"     *)
(* give relative updates of magnitude -5.                                   *)

MaxGaugeEvents == 3

GaugeBkt(name) == <<prefixGauges, <<name>>>>

GaugePackets ==
    {Packet(GaugeBkt("g"), GaugeData(FALSE, FALSE, 5), "g", <<1, 1>>)}
    \cup {Packet(GaugeBkt("g"), GaugeData(TRUE, FALSE, v), "g", <<1, 1>>) :
            v \in {5, 10, 0 - 5}}
    \cup {Packet(GaugeBkt("g"), GaugeData(TRUE, TRUE, v), "g", <<1, 1>>) :
            v \in {2, 10, 0 - 5}}

InitGauges ==
    /\ InitTables
    /\ ParseIdle
    /\ persistCountKeys = 0
    /\ receiveCounter = <<>>
    /\ debug = FALSE
    /\ graphiteAddress = "127.0.0.1:2003"
    /\ percentThreshold = <<>>

HandleGauge == Handle(GaugePackets, MaxGaugeEvents)

NextGauges == HandleGauge \/ Submit

SpecGauges == InitGauges /\ [][NextGauges]_vars

\* This step handles one packet: the last one of the window after it.
PacketHandled == Len(window') = Len(window) + 1
HandledPacket == window'[Len(window')]

Max0(x) == IF x > 0 THEN x ELSE 0

\* C9: a relative-negative gauge packet of magnitude d, applied to a bucket
\* holding v (0 if absent), stores max(0, v - d), which is never below 0.
C9_RelativeNegativeSaturates ==
    [][(/\ PacketHandled
        /\ HandledPacket.Modifier = "g"
        /\ HandledPacket.Value.Relative
        /\ HandledPacket.Value.Negative) =>
            LET b == HandledPacket.Bucket
                v == MapGet(gauges, b, 0)
                d == HandledPacket.Value.num
            IN  /\ b \in DOMAIN gauges'
                /\ gauges'[b] = Max0(v - d)
                /\ gauges'[b] >= 0]_vars

\* The scenario +5, -2, -10 in one window: the gauge holds 0.
C9_Witness ==
    /\ Len(window) = 3
    /\ window[1].Value = GaugeData(TRUE, FALSE, 5)
    /\ window[2].Value = GaugeData(TRUE, TRUE, 2)
    /\ window[3].Value = GaugeData(TRUE, TRUE, 10)
    /\ gauges[GaugeBkt("g")] = 0

\* C18: every stored gauge value is at least 0 and at most the upper bound.
C18_GaugeRange ==
    \A b \in DOMAIN gauges : 0 <= gauges[b] /\ gauges[b] <= MaxUint64

-----------------------------------------------------------------------------
(* The sets: set packets are applied, submit runs.                          *)

MaxSetEvents == 3

Alice == <<"a", "l", "i", "c", "e">>
Bob == <<"b", "o", "b">>

SetPackets ==
    {Packet(Bkt("u"), StringValue(Alice), "s", <<1, 1>>),
     Packet(Bkt("u"), StringValue(Bob), "s", <<1, 1>>),
     Packet(Bkt("v"), StringValue(Alice), "s", <<1, 1>>)}

InitSets ==
    /\ InitTables
    /\ ParseIdle
    /\ persistCountKeys = 0
    /\ receiveCounter = <<>>
    /\ debug \in BOOLEAN
    /\ graphiteAddress = "127.0.0.1:2003"
    /\ percentThreshold = <<>>

HandleSet == Handle(SetPackets, MaxSetEvents)

NextSets == HandleSet \/ Submit

SpecSets == InitSets /\ [][NextSets]_vars

SetBuckets == {Bkt("u"), Bkt("v")}

\* The distinct strings among the set packets of w for bucket b.
StringsOf(w, b) ==
    {w[i].Value.str : i \in {j \in 1..Len(w) :
                                w[j].Modifier = "s" /\ w[j].Bucket = b}}

\* C13: a run of the sets emitter writes, for every set bucket with set
\* packets applied since its previous run, one line with the number of
\* distinct strings among them, writes no line for the other set buckets,
\* and leaves the sets table empty.
C13_DistinctStrings ==
    [][EmittersRun =>
        /\ \A b \in SetBuckets :
              {l \in flush'.lines : l.src = "sets" /\ l.bucket = b}
                = IF StringsOf(window, b) = {} THEN {}
                  ELSE {Line("sets", b, "", 0,
                             Cardinality(StringsOf(window, b)), 1)}
        /\ sets' = EmptyMap]_vars

\* A flush wrote the count 2 for bucket u and no line for bucket v.
C13_Witness ==
    /\ flush.ran
    /\ {l \in flush.lines : l.src = "sets"}
          = {Line("sets", Bkt("u"), "", 0, 2, 1)}
    /\ sets = EmptyMap

-----------------------------------------------------------------------------
(* Two packets handled in either order, from every state the tables get to  *)
(* within one window of packets of every type.                              *)

MaxCommute == 2

CommutePackets ==
    {Packet(Bkt("a"), IntValue(v), "c", <<1, 1>>) : v \in {2, 0 - 3}}
    \cup {Packet(GaugeBkt("g"), GaugeData(FALSE, FALSE, 5), "g", <<1, 1>>)}
    \cup {Packet(GaugeBkt("g"), GaugeData(TRUE, FALSE, v), "g", <<1, 1>>) :
            v \in {5, 10, 0 - 5}}
    \cup {Packet(GaugeBkt("g"), GaugeData(TRUE, TRUE, 2), "g", <<1, 1>>)}
    \cup {Packet(TimerBkt("t"), FloatValue(v), "ms", <<1, 1>>) : v \in {100, 200}}
    \cup {Packet(Bkt("u"), StringValue(Alice), "s", <<1, 1>>)}

InitCommute ==
    /\ InitTables
    /\ ParseIdle
    /\ persistCountKeys = 1
    /\ receiveCounter \in {<<>>, ReceiveBucket, Bkt("a")}
    /\ debug = FALSE
    /\ graphiteAddress = "127.0.0.1:2003"
    /\ percentThreshold = <<90>>

HandleCommute == Handle(CommutePackets, MaxCommute)

NextCommute == HandleCommute

SpecCommute == InitCommute /\ [][NextCommute]_vars

AbsoluteSet(e) == e.Modifier = "g" /\ ~e.Value.Relative

\* From the tables as they are, e1 then e2 and e2 then e1 give the same
\* flush output and the same stored counters and gauges.
SameEitherOrder(e1, e2) ==
    LET t12 == Handled(Handled(Tables, e1), e2)
        t21 == Handled(Handled(Tables, e2), e1)
    IN  /\ EmittersOn(t12).lines = EmittersOn(t21).lines
        /\ t12.counters = t21.counters
        /\ t12.gauges = t21.gauges

\* C14 as claimed: any two packets neither of which sets a gauge absolutely
\* give the same result in either order, from any state.
C14_Commutative ==
    \A e1, e2 \in CommutePackets :
        (~AbsoluteSet(e1) /\ ~AbsoluteSet(e2)) => SameEitherOrder(e1, e2)

\* The relative update gd of a gauge holding v takes a clamping branch.
Saturates(v, gd) ==
    IF gd.Negative THEN gd.num > v ELSE gd.num > MaxUint64 - v

\* Two relative updates of one gauge, one of which clamps in some order.
ClampingPair(e1, e2) ==
    /\ e1.Modifier = "g" /\ e2.Modifier = "g" /\ e1.Bucket = e2.Bucket
    /\ LET v == MapGet(gauges, e1.Bucket, 0)
       IN  \/ Saturates(v, e1.Value)
           \/ Saturates(v, e2.Value)
           \/ Saturates(GaugeApply(v, e1.Value), e2.Value)
           \/ Saturates(GaugeApply(v, e2.Value), e1.Value)

\* One of the two is a counter packet for the bucket of -receive-counter.
CountsTheReceiveBucket(e1, e2) ==
    \E e \in {e1, e2} : e.Modifier = "c" /\ e.Bucket = receiveCounter

\* C14 amended: the same, except for two relative updates of one gauge one
\* of which clamps, and except for a counter packet on the bucket that
\* -receive-counter names.
C14_CommutesUnlessClamped ==
    \A e1, e2 \in CommutePackets :
        (/\ ~AbsoluteSet(e1) /\ ~AbsoluteSet(e2)
         /\ ~ClampingPair(e1, e2)
         /\ ~CountsTheReceiveBucket(e1, e2)) => SameEitherOrder(e1, e2)

\* Two samples were handled in descending order, with a counter that has
\* the receive counter's bucket to itself.
C14_Witness ==
    /\ TimerBkt("t") \in DOMAIN timers
    /\ timers[TimerBkt("t")] = <<200, 100>>
    /\ receiveCounter = ReceiveBucket
    /\ counters[ReceiveBucket] = 2

-----------------------------------------------------------------------------
(* The aggregator with packets of every type, every setting of -debug,      *)
(* -graphite and -receive-counter, and every outcome of the network.        *)

MaxMixed == 2

MixedPackets ==
    {Packet(Bkt("a"), IntValue(7), "c", <<1, 1>>),
     Packet(GaugeBkt("g"), GaugeData(TRUE, FALSE, 2), "g", <<1, 1>>),
     Packet(TimerBkt("t"), FloatValue(100), "ms", <<1, 1>>),
     Packet(Bkt("s"), StringValue(<<"x">>), "s", <<1, 1>>),
     Packet(Bkt("a"), FloatValue(1), "x", <<1, 1>>)}

Init ==
    /\ InitTables
    /\ ParseIdle
    /\ persistCountKeys = 1
    /\ receiveCounter \in {<<>>, ReceiveBucket}
    /\ debug \in BOOLEAN
    /\ graphiteAddress \in {"-", "127.0.0.1:2003"}
    /\ percentThreshold = <<90>>

HandleMixed == Handle(MixedPackets, MaxMixed)

Next == HandleMixed \/ Submit

Spec == Init /\ [][Next]_vars

AllTablesEmpty ==
    /\ DOMAIN counters = {} /\ DOMAIN gauges = {} /\ DOMAIN timers = {}
    /\ DOMAIN sets = {} /\ DOMAIN countInactivity = {}

SubmitSkipped == ~PacketHandled /\ ~flush'.ran /\ ~crashed'

\* C11: a call of submit in which no emitter runs leaves the five tables
\* as they are, returning nil when -graphite is "-" and an error otherwise;
\* the first later run of the emitters emits for each counter the sum over
\* everything applied since the emitters last ran, the skipped flushes'
\* windows included.
C11_SkippedFlushKeepsTables ==
    [][/\ SubmitSkipped =>
            /\ UNCHANGED tableVars
            /\ flush'.ret = IF graphiteAddress = "-" THEN "nil" ELSE "error"
       /\ EmittersRun =>
            /\ CounterLinesAreSums({Bkt("a")})
            /\ receiveCounter \in DOMAIN counters =>
                  Line("counters", receiveCounter, "", 0, Len(window), 1)
                      \in flush'.lines]_vars

\* A failed dial has just left a counter and an inactivity ticker in place.
C11_Witness ==
    /\ ~flush.ran /\ flush.ret = "error" /\ ~flush.conn
    /\ Bkt("a") \in DOMAIN counters
    /\ counters[Bkt("a")] = 7
    /\ Bkt("a") \in DOMAIN countInactivity
    /\ countInactivity[Bkt("a")] = 1

-----------------------------------------------------------------------------
(* The pipeline: udpListener and httpHandler put payloads on PacketIn, the  *)
(* workers of processPacketSentIn parse them and put the packets on In, and *)
(* monitor selects among the signal, the ticker and In.  A payload carries  *)
(* the number of its arrival and a packet the number of its line, so that   *)
(* the histories can tell where each one went.                              *)

MAX_UNPROCESSED_PACKETS == 1
num_procs_to_run == 2
MaxPayloads == 2

\* strings.Split(s, "/")
RECURSIVE Split(_)
Split(s) ==
    LET i == IndexByte(s, "/")
    IN  IF i < 0 THEN <<s>>
        ELSE <<SliceTo(s, i)>> \o Split(SliceFrom(s, i + 1))

\* stat_bytes: path_elements[1 .. len-4] joined with ".".
RECURSIVE JoinDots(_, _, _)
JoinDots(path_elements, i, stat_bytes) ==
    IF i >= Len(path_elements) - 3 THEN stat_bytes
    ELSE JoinDots(path_elements, i + 1,
                  (IF i > 1 THEN stat_bytes \o <<".">> ELSE stat_bytes)
                      \o path_elements[i + 1])

\* httpHandler up to its send: the statsd_string, or a 400 response.
httpHandler(path_string) ==
    LET path_elements == Split(path_string)
        n == Len(path_elements)
    IN  IF n < 4 THEN [ok |-> FALSE, statsd_string |-> <<>>]
        ELSE
        LET stat_type == path_elements[n - 2]
            stat_amount_string == path_elements[n]
            joined == JoinDots(path_elements, 1, <<>>)
            stat_bytes == (IF Len(joined) > 0 THEN joined \o <<".">>
                           ELSE joined) \o path_elements[n - 1]
            head == stat_bytes \o <<":">> \o stat_amount_string
        IN  IF stat_type = <<"c", "o", "u", "n", "t">>
            THEN [ok |-> TRUE, statsd_string |-> head \o <<"|", "c">>]
            ELSE IF stat_type = <<"t", "i", "m", "e">>
            THEN [ok |-> TRUE, statsd_string |-> head \o <<"|", "m", "s">>]
            ELSE IF stat_type = <<"g", "a", "u", "g", "e">>
            THEN [ok |-> TRUE, statsd_string |-> head \o <<"|", "g">>]
            ELSE [ok |-> FALSE, statsd_string |-> <<>>]

\* The datagrams senders send: two metric lines around a line the parser
\* skips, and a gauge without a value.
Datagrams ==
    {<<"a", ":", "1", "|", "c", "\n", "x", "\n", "b", ":", "2", "|", "c">>,
     <<"g", ":", "|", "g">>}

\* The request paths: /n/time/t/9 and /n/sum/t/9.
Paths ==
    {<<"/", "n", "/", "t", "i", "m", "e", "/", "t", "/", "9">>,
     <<"/", "n", "/", "s", "u", "m", "/", "t", "/", "9">>}

\* What the network does to the submits of the loop.
PipeOutcomes == {"dial", "ok"}

InitPipe ==
    /\ data = <<>> /\ parsed = NotParsed
    /\ InitTables
    /\ persistCountKeys = 0
    /\ receiveCounter = <<>>
    /\ debug = FALSE
    /\ graphiteAddress = "127.0.0.1:2003"
    /\ percentThreshold = <<>>
    /\ PacketIn = <<>> /\ In = <<>> /\ signalchan = <<>> /\ tickerC = FALSE
    /\ udpMessage = {} /\ httpString = {} /\ work = {}
    /\ pc = "select"
    /\ arrived = 0 /\ received = {} /\ removed = EmptyMap
    /\ produced = EmptyMap /\ applied = EmptyMap
    /\ finalSubmits = 0

\* The process is running: no panic, and monitor (so main) has not returned.
Running == ~crashed /\ pc = "select"

\* A channel after a send and after a receive.
Send(ch, x) == Append(ch, x)
RecvKeep(ch) == ch
Recv(ch) == Tail(ch)

\* A datagram reaches ReadFromUDP of a reader that is not holding one.
udpRead ==
    /\ Running
    /\ Cardinality(udpMessage) < num_procs_to_run
    /\ arrived < MaxPayloads
    /\ arrived' = arrived + 1
    /\ \E s \in Datagrams :
        udpMessage' = udpMessage \cup {[id |-> arrived', s |-> s]}
    /\ received' = received \cup {arrived'}
    /\ UNCHANGED <<parseVars, aggVars, chanVars, httpString, work, pc,
                   removed, produced, applied, finalSubmits>>

\* ReadFromUDP returns an error: the reader goes on to read.
udpReadError ==
    /\ Running
    /\ Cardinality(udpMessage) < num_procs_to_run
    /\ arrived < MaxPayloads
    /\ arrived' = arrived + 1
    /\ UNCHANGED <<parseVars, aggVars, chanVars, taskVars, received, removed,
                   produced, applied, finalSubmits>>

\* A listener that counts the datagrams it passes on in the counters table.
udpSendCounting ==
    /\ Running
    /\ Len(PacketIn) < MAX_UNPROCESSED_PACKETS
    /\ \E m \in udpMessage :
        /\ PacketIn' = Send(PacketIn, m)
        /\ udpMessage' = udpMessage \ {m}
    /\ counters' = MapSet(counters, Bkt("a"), MapGet(counters, Bkt("a"), 0) + 1)
    /\ UNCHANGED <<parseVars, gauges, timers, countInactivity, sets, flagVars,
                   flush, crashed, window, sinceValue, In, signalchan, tickerC,
                   httpString, work, pc, histVars>>

\* PacketIn <- string(message[:n]): blocks while PacketIn is full.
udpSend ==
    /\ Running
    /\ Len(PacketIn) < MAX_UNPROCESSED_PACKETS
    /\ \E m \in udpMessage :
        /\ PacketIn' = Send(PacketIn, m)
        /\ udpMessage' = udpMessage \ {m}
    /\ UNCHANGED <<parseVars, aggVars, In, signalchan, tickerC, httpString,
                   work, pc, histVars>>

\* A request arrives: httpHandler runs up to its send, or answers 400.
httpRequest ==
    /\ Running
    /\ arrived < MaxPayloads
    /\ arrived' = arrived + 1
    /\ \E path_string \in Paths :
        LET h == httpHandler(path_string)
        IN  IF h.ok
            THEN /\ httpString' = httpString
                        \cup {[id |-> arrived', s |-> h.statsd_string]}
                 /\ received' = received \cup {arrived'}
            ELSE UNCHANGED <<httpString, received>>
    /\ UNCHANGED <<parseVars, aggVars, chanVars, udpMessage, work, pc,
                   removed, produced, applied, finalSubmits>>

\* PacketIn <- statsd_string of one handler: blocks while PacketIn is full.
httpSend ==
    /\ Running
    /\ Len(PacketIn) < MAX_UNPROCESSED_PACKETS
    /\ \E m \in httpString :
        /\ PacketIn' = Send(PacketIn, m)
        /\ httpString' = httpString \ {m}
    /\ UNCHANGED <<parseVars, aggVars, In, signalchan, tickerC, udpMessage,
                   work, pc, histVars>>

\* The packets of payload m ranged over from the last to the first.
TaggedBackwards(m, output) ==
    [k \in 1..Len(output) |->
        [src |-> <<m.id, Len(output) + 1 - k>>,
         p |-> output[Len(output) + 1 - k]]]

\* The packets of payload m, each with the payload's number and its place.
Tagged(m, output) ==
    [k \in 1..Len(output) |-> [src |-> <<m.id, k>>, p |-> output[k]]]

\* s := <-PacketIn and parseMessageString(s) of an idle worker.
workerReceive ==
    /\ Running
    /\ Cardinality(work) < num_procs_to_run
    /\ PacketIn # <<>>
    /\ LET m == Head(PacketIn)
           r == parseMessageString(m.s)
       IN  /\ removed' = MapSet(removed, m.id, MapGet(removed, m.id, 0) + 1)
           /\ IF r.panic
              THEN /\ crashed' = TRUE
                   /\ UNCHANGED <<work, produced>>
              ELSE /\ crashed' = crashed
                   /\ produced' = MapSet(produced, m.id, Len(r.output))
                   /\ work' = IF r.output = <<>> THEN work
                              ELSE work \cup {Tagged(m, r.output)}
    /\ PacketIn' = Recv(PacketIn)
    /\ UNCHANGED <<parseVars, tableVars, flagVars, flush, window, sinceValue,
                   In, signalchan, tickerC, udpMessage, httpString, pc,
                   arrived, received, applied, finalSubmits>>

\* In <- p of one worker: blocks while In is full.
workerSend ==
    /\ Running
    /\ Len(In) < MAX_UNPROCESSED_PACKETS
    /\ \E job \in work :
        /\ In' = Send(In, Head(job))
        /\ work' = (work \ {job})
                   \cup (IF Tail(job) = <<>> THEN {} ELSE {Tail(job)})
    /\ UNCHANGED <<parseVars, aggVars, PacketIn, signalchan, tickerC,
                   udpMessage, httpString, pc, histVars>>

\* SIGTERM is delivered; signal.Notify drops it when signalchan is full.
sigterm ==
    /\ Running
    /\ signalchan = <<>>
    /\ signalchan' = Send(signalchan, "SIGTERM")
    /\ UNCHANGED <<parseVars, aggVars, PacketIn, In, tickerC, taskVars,
                   histVars>>

\* The ticker fires; the tick is dropped when one is waiting.
tick ==
    /\ Running
    /\ ~tickerC
    /\ tickerC' = TRUE
    /\ UNCHANGED <<parseVars, aggVars, PacketIn, In, signalchan, taskVars,
                   histVars>>

\* The signal case without its return.
monitorSignalNoReturn ==
    /\ Running
    /\ signalchan # <<>>
    /\ signalchan' = Recv(signalchan)
    /\ \E outcome \in PipeOutcomes : submit(outcome)
    /\ finalSubmits' = finalSubmits + 1
    /\ pc' = "select"
    /\ UNCHANGED <<parseVars, PacketIn, In, tickerC, udpMessage, httpString,
                   work, arrived, received, removed, produced, applied>>

\* case sig := <-signalchan
monitorSignal ==
    /\ Running
    /\ signalchan # <<>>
    /\ signalchan' = Recv(signalchan)
    /\ \E outcome \in PipeOutcomes : submit(outcome)
    /\ finalSubmits' = finalSubmits + 1
    /\ pc' = "returned"
    /\ UNCHANGED <<parseVars, PacketIn, In, tickerC, udpMessage, httpString,
                   work, arrived, received, removed, produced, applied>>

\* case <-ticker.C
monitorTick ==
    /\ Running
    /\ tickerC
    /\ tickerC' = FALSE
    /\ \E outcome \in PipeOutcomes : submit(outcome)
    /\ UNCHANGED <<parseVars, PacketIn, In, signalchan, taskVars, histVars>>

\* case s := <-In
monitorIn ==
    /\ Running
    /\ In # <<>>
    /\ packetHandler(Head(In).p)
    /\ window' = Append(window, Head(In).p)
    /\ applied' = MapSet(applied, Head(In).src,
                         MapGet(applied, Head(In).src, 0) + 1)
    /\ In' = Recv(In)
    /\ UNCHANGED <<parseVars, flagVars, flush, crashed, sinceValue, PacketIn,
                   signalchan, tickerC, taskVars, arrived, received, removed,
                   produced, finalSubmits>>

udpListener == udpRead \/ udpReadError \/ udpSend

httpListener == httpRequest \/ httpSend

processPacketSentIn == workerReceive \/ workerSend

monitor == monitorSignal \/ monitorTick \/ monitorIn

NextPipe ==
    \/ udpListener
    \/ httpListener
    \/ processPacketSentIn
    \/ monitor
    \/ sigterm
    \/ tick

SpecPipe == InitPipe /\ [][NextPipe]_vars

\* The scheduling of the goroutines: select chooses among the ready cases of
\* monitor at random, so no ready case is passed over for ever, and a
\* goroutine whose channel operation can proceed is run.  Each of these
\* steps, once enabled, stays enabled until it is taken or the process ends,
\* so weak fairness says as much as strong fairness here.  The fairness of
\* workerReceive is written out, with the condition under which an idle
\* worker can receive in the place of ENABLED.
CanReceive ==
    Running /\ Cardinality(work) < num_procs_to_run /\ PacketIn # <<>>

FairPipe ==
    /\ WF_vars(monitorSignal)
    /\ WF_vars(monitorTick)
    /\ WF_vars(monitorIn)
    /\ []<>(~CanReceive) \/ []<><<workerReceive>>_vars
    /\ WF_vars(workerSend)
    /\ WF_vars(udpSend)
    /\ WF_vars(httpSend)

SpecPipeFair == SpecPipe /\ FairPipe

-----------------------------------------------------------------------------
(* Properties of the pipeline.                                              *)

\* Where payload number id is: in the hands of a listener, on PacketIn, or
\* received from PacketIn (so many times).
HeldPayload(id) == Cardinality({m \in udpMessage \cup httpString : m.id = id})
OnPacketIn(id)  == Cardinality({i \in 1..Len(PacketIn) : PacketIn[i].id = id})
Removed(id)     == MapGet(removed, id, 0)

\* Where the packet of line k of payload id is: in the hands of a worker, on
\* In, or handled (so many times).
InWork(t) ==
    Cardinality({jk \in UNION {{<<job, k>> : k \in 1..Len(job)} : job \in work} :
                    jk[1][jk[2]].src = t})
OnIn(t)    == Cardinality({i \in 1..Len(In) : In[i].src = t})
Applied(t) == MapGet(applied, t, 0)

\* Every packet that exists is one the parser made.
Tags ==
    UNION {{job[k].src : k \in 1..Len(job)} : job \in work}
    \cup {In[i].src : i \in 1..Len(In)}
    \cup DOMAIN applied

PayloadsConserved ==
    \A id \in received :
        /\ HeldPayload(id) + OnPacketIn(id) + Removed(id) = 1
        /\ Removed(id) = 1 => crashed \/ id \in DOMAIN produced

PacketsConserved ==
    /\ \A id \in DOMAIN produced : \A k \in 1..produced[id] :
            InWork(<<id, k>>) + OnIn(<<id, k>>) + Applied(<<id, k>>) = 1
    /\ \A t \in Tags : t[1] \in DOMAIN produced /\ t[2] \in 1..produced[t[1]]

\* C4 (as amended): neither queue ever holds more than its capacity, every
\* payload read without error is in exactly one place (a listener's hands,
\* PacketIn, or received by one worker, once), and every packet the parser
\* made is in exactly one place (the worker's hands, In, or handled, once).
C4_NoDropAtTheQueues ==
    /\ Len(PacketIn) <= MAX_UNPROCESSED_PACKETS
    /\ Len(In) <= MAX_UNPROCESSED_PACKETS
    /\ PayloadsConserved
    /\ PacketsConserved

\* C4 (as stated): in every execution, also one that monitor has ended,
\* every payload put on PacketIn was received by a worker and every packet
\* made of it was handled, exactly once.
C4_EveryItemApplied ==
    /\ C4_NoDropAtTheQueues
    /\ pc = "returned" =>
        \A id \in received :
            HeldPayload(id) = 0 =>
                /\ Removed(id) = 1
                /\ id \in DOMAIN produced
                /\ \A k \in 1..produced[id] : Applied(<<id, k>>) = 1

\* Both queues are full and a worker is blocked with a packet to send.
C4_Witness ==
    /\ Len(PacketIn) = MAX_UNPROCESSED_PACKETS
    /\ Len(In) = MAX_UNPROCESSED_PACKETS
    /\ work # {}
    /\ ~crashed /\ pc = "select"

\* C5: the step that receives the signal calls submit once and returns,
\* whatever submit returns; afterwards no packet is handled, no submit is
\* called and the tables stay as they are.
C5_FinalSubmitThenReturn ==
    [][/\ (signalchan # <<>> /\ signalchan' = <<>>) =>
            /\ finalSubmits' = finalSubmits + 1
            /\ flush'.ret \in {"nil", "error"}
            /\ pc' = "returned"
       /\ finalSubmits > 0 =>
            UNCHANGED <<tableVars, flush, window, applied, finalSubmits>>
       /\ finalSubmits' > 0 => finalSubmits' = 1 /\ pc' = "returned"]_vars

\* monitor has returned after a final submit that failed, with a packet
\* still on In.
C5_Witness ==
    /\ pc = "returned" /\ finalSubmits = 1
    /\ flush.ret = "error"
    /\ In # <<>>

\* A listener, a handler or a worker is blocked on a full queue.
BlockedOnPacketIn ==
    /\ udpMessage \cup httpString # {}
    /\ Len(PacketIn) = MAX_UNPROCESSED_PACKETS
BlockedOnIn == work # {} /\ Len(In) = MAX_UNPROCESSED_PACKETS

\* C20: under fair scheduling a waiting tick is eventually followed by a call
\* of submit (the tick's own, or the final one), a waiting signal is
\* eventually handled and monitor returns, and while monitor runs a producer
\* blocked on a full queue is eventually unblocked.
C20_NotStarved ==
    /\ tickerC ~> (~tickerC \/ pc = "returned")
    /\ (signalchan # <<>>) ~> (pc = "returned")
    /\ BlockedOnPacketIn ~> (~BlockedOnPacketIn \/ ~Running)
    /\ BlockedOnIn ~> (~BlockedOnIn \/ ~Running)

\* The same while the process has not panicked.
C20_NotStarvedUnlessPanic ==
    /\ tickerC ~> (~tickerC \/ pc = "returned" \/ crashed)
    /\ (signalchan # <<>>) ~> (pc = "returned" \/ crashed)
    /\ BlockedOnPacketIn ~> (~BlockedOnPacketIn \/ ~Running)
    /\ BlockedOnIn ~> (~BlockedOnIn \/ ~Running)

\* The places on In of the packet of line t[2] of payload t[1].
PlacesOnIn(t) == {i \in 1..Len(In) : In[i].src = t}

RECURSIVE Replay(_, _)
Replay(tb, w) ==
    IF Len(w) = 0 THEN tb ELSE Replay(Handled(tb, Head(w)), Tail(w))

EmptyTables == [counters |-> EmptyMap, timers |-> EmptyMap,
                gauges |-> EmptyMap, sets |-> EmptyMap]

\* This step is one call of packetHandler by monitor, and nothing else.
OneHandlerCall ==
    /\ In # <<>> /\ In' = Tail(In)
    /\ window' = Append(window, Head(In).p)
    /\ Tables' = Handled(Tables, Head(In).p)
    /\ UNCHANGED <<countInactivity, flush>>

\* monitor receives a tick or a signal in this step, and so calls submit.
SubmitCalled ==
    (tickerC /\ ~tickerC') \/ (signalchan # <<>> /\ signalchan' = <<>>)

\* This step is one call of submit by monitor that runs the emitters, and
\* nothing else.
OneSubmitCall ==
    /\ SubmitCalled
    /\ UNCHANGED <<In, applied>>
    /\ EmittersRun
    /\ flush'.lines = EmittersOn(Replay(EmptyTables, window)).lines
    /\ Tables' = EmptyTables

\* C15: the tables change only in a step of monitor that is one whole call
\* of packetHandler or one whole call of submit; the tables always hold
\* exactly the packets handled since the emitters last ran, each once, and
\* a run of the emitters writes the output of exactly those packets and
\* leaves nothing of them behind for the next run.
C15_SingleWriter ==
    [][/\ tableVars' # tableVars => OneHandlerCall \/ OneSubmitCall
       /\ (SubmitCalled /\ flush'.ran) => OneSubmitCall
       /\ Tables' = Replay(EmptyTables, window')]_vars

\* A flush has written lines while a packet was waiting on In: the packet
\* is in no output yet.
C15_Witness ==
    /\ flush.ran /\ flush.lines # {}
    /\ window = <<>>
    /\ In # <<>>
    /\ pc = "select"

\* The gauge lines of a buffer.
GaugeLines(lines) == {l \in lines : l.src = "gauges"}

\* C16: when the emitters have run, counters, gauges, timers and sets are
\* empty, delivered or not; a run after a failed dial (in debug mode)
\* writes nothing and returns an error; and the gauge lines of a run are
\* those of the gauge packets handled since the previous run, applied to
\* gauges that start absent (from 0).
C16_EmittersDrainTables ==
    [][EmittersRun =>
        /\ counters' = EmptyMap /\ gauges' = EmptyMap
        /\ timers' = EmptyMap /\ sets' = EmptyMap
        /\ ~flush'.conn => (flush'.ret = "error" /\ ~flush'.wrote /\ debug)
        /\ GaugeLines(flush'.lines)
             = processGauges(Replay(EmptyTables, window).gauges).lines]_vars

\* In debug mode a dial has failed: the gauge was emitted as 2, a relative
\* update from 0, to no receiver, and the tables are empty.
C16_Witness ==
    /\ flush.ran /\ ~flush.conn /\ flush.ret = "error" /\ flush.written = {}
    /\ GaugeLines(flush.lines) = {Line("gauges", GaugeBkt("g"), "", 0, 2, 1)}
    /\ gauges = EmptyMap /\ counters = EmptyMap
    /\ timers = EmptyMap /\ sets = EmptyMap

-----------------------------------------------------------------------------
(* The parser alone: a payload is put together line by line, then           *)
(* parseMessage is applied to it.                                           *)

MaxLines == 2

LineVals  == {<<>>, <<"1">>, <<"-", "1">>, <<"+", "-", "1">>, <<"x">>}
LineTypes == {<<"c">>, <<"g">>, <<"s">>, <<"m", "s">>, <<"m">>, <<"x">>}
LineTails == {<<>>, <<"|", "@", "2">>, <<"|", "@", "x">>}

Lines ==
    {<<"a", ":">> \o v \o <<"|">> \o t \o tl :
        v \in LineVals, t \in LineTypes, tl \in LineTails}
    \cup {<<>>, <<"a">>, <<"a", ":">>, <<"a", ":", "1">>, <<"a", ":", "1", "|">>}

\* The number of lines of a payload: one more than its newlines.
LineCount(bytes) == Len(SplitLines(bytes))

InitParse ==
    /\ data = <<>>
    /\ parsed = NotParsed
    /\ AggIdle
    /\ PipeIdle

\* The payload grows by one line of Lines (the sender's choice).
AppendLine ==
    /\ ~parsed.done
    /\ data = <<>> \/ LineCount(data) < MaxLines
    /\ \E l \in Lines :
        data' = IF data = <<>> THEN l ELSE data \o <<"\n">> \o l
    /\ UNCHANGED <<parsed, aggVars, pipeVars>>

Parse ==
    /\ ~parsed.done
    /\ parsed' = [done |-> TRUE] @@ parseMessage(data)
    /\ UNCHANGED <<data, aggVars, pipeVars>>

NextParse == AppendLine \/ Parse

SpecParse == InitParse /\ [][NextParse]_vars

-----------------------------------------------------------------------------
(* Properties of the parser.                                                *)

\* A line the wire format rejects: no ':', ':' last, no '|' after it, '|'
\* last, 'm' not followed by 's', or a value that is missing or is no number
\* where the type wants a number (any string is a set's value).
MalformedLine(line) ==
    LET i == IndexByte(line, ":")
    IN  \/ i < 0
        \/ i = Len(line) - 1
        \/ LET rest == SliceFrom(line, i + 1)
               j    == IndexByte(rest, "|")
           IN  \/ j < 0
               \/ j = Len(rest) - 1
               \/ LET val == SliceTo(rest, j)
                      t   == rest[j + 2]
                      num == IF Len(val) > 0 /\ val[1] \in {"+", "-"}
                             THEN Tail(val) ELSE val
                  IN  \/ t = "m" /\ (j + 2 >= Len(rest) \/ rest[j + 3] # "s")
                      \/ t = "c" /\ ParseInt(val).err
                      \/ t = "g" /\ (Len(val) = 0 \/ ParseFloat(num).err)
                      \/ t \notin {"c", "g", "s"} /\ ParseFloat(val).err

RECURSIVE CountWellFormed(_)
CountWellFormed(lines) ==
    IF Len(lines) = 0 THEN 0
    ELSE (IF Len(Head(lines)) > 0 /\ ~MalformedLine(Head(lines)) THEN 1 ELSE 0)
         + CountWellFormed(Tail(lines))

\* C2: parseMessage returns normally for every payload, with one packet for
\* each well-formed line and none for a malformed one.
C2_ParserNeverFails ==
    parsed.done =>
        /\ ~parsed.panic
        /\ Len(parsed.output) = CountWellFormed(SplitLines(data))

Modifiers == {"c", "ms", "g", "s"}

\* C3: every packet the parser returns has a modifier among c, ms, g, s.
C3_ModifierIsKnown ==
    parsed.done =>
        \A i \in 1..Len(parsed.output) : parsed.output[i].Modifier \in Modifiers

=============================================================================
